---------------------------- MODULE Spec2Model ----------------------------
(***************************************************************************)
(* The Mergington High School activities service: src/src/database.py (the *)
(* two tables, the seed) and src/src/app.py (the request handlers).        *)
(*                                                                         *)
(* The store is the pair of tables <<activities, participants>>.  Spec     *)
(* runs every handler to completion as one step; ConcSpec runs the         *)
(* handlers of NumProcs simultaneous requests one database statement at a  *)
(* time, the INSERT or DELETE together with its COMMIT.                    *)
(***************************************************************************)
EXTENDS Integers, Sequences, FiniteSets, TLC

VARIABLES
    activities,    \* the rows of table "activities"
    participants,  \* the rows of table "participants"
    started,       \* whether the startup event of this process has run
    procs,         \* per simultaneous request: where its handler stands
    response       \* what the operation that completed last returned

vars == <<activities, participants, started, procs, response>>

(***************************************************************************)
(* Bounds of the model.                                                    *)
(***************************************************************************)
\* Number of requests the service handles at the same time in ConcSpec.
NumProcs == 2

\* Largest primary key a participant row may get; no INSERT beyond it.
MaxRowId == 28

Procs == 1..NumProcs

Range(s) == {s[i] : i \in DOMAIN s}

(***************************************************************************)
(* database.py: the seed catalog.                                          *)
(***************************************************************************)
activities_data == <<
    [name |-> "Chess Club",
     description |-> "Learn strategies and compete in chess tournaments",
     schedule |-> "Fridays, 3:30 PM - 5:00 PM",
     max_participants |-> 12,
     participants |-> <<"michael@mergington.edu", "daniel@mergington.edu">>],
    [name |-> "Programming Class",
     description |-> "Learn programming fundamentals and build software projects",
     schedule |-> "Tuesdays and Thursdays, 3:30 PM - 4:30 PM",
     max_participants |-> 20,
     participants |-> <<"emma@mergington.edu", "sophia@mergington.edu">>],
    [name |-> "Gym Class",
     description |-> "Physical education and sports activities",
     schedule |-> "Mondays, Wednesdays, Fridays, 2:00 PM - 3:00 PM",
     max_participants |-> 30,
     participants |-> <<"john@mergington.edu", "olivia@mergington.edu">>],
    [name |-> "Soccer Team",
     description |-> "Join the school soccer team and compete in matches",
     schedule |-> "Tuesdays and Thursdays, 4:00 PM - 5:30 PM",
     max_participants |-> 22,
     participants |-> <<"liam@mergington.edu", "noah@mergington.edu">>],
    [name |-> "Basketball Team",
     description |-> "Practice and play basketball with the school team",
     schedule |-> "Wednesdays and Fridays, 3:30 PM - 5:00 PM",
     max_participants |-> 15,
     participants |-> <<"ava@mergington.edu", "mia@mergington.edu">>],
    [name |-> "Art Club",
     description |-> "Explore your creativity through painting and drawing",
     schedule |-> "Thursdays, 3:30 PM - 5:00 PM",
     max_participants |-> 15,
     participants |-> <<"amelia@mergington.edu", "harper@mergington.edu">>],
    [name |-> "Drama Club",
     description |-> "Act, direct, and produce plays and performances",
     schedule |-> "Mondays and Wednesdays, 4:00 PM - 5:30 PM",
     max_participants |-> 20,
     participants |-> <<"ella@mergington.edu", "scarlett@mergington.edu">>],
    [name |-> "Math Club",
     description |-> "Solve challenging problems and participate in math competitions",
     schedule |-> "Tuesdays, 3:30 PM - 4:30 PM",
     max_participants |-> 10,
     participants |-> <<"james@mergington.edu", "benjamin@mergington.edu">>],
    [name |-> "Debate Team",
     description |-> "Develop public speaking and argumentation skills",
     schedule |-> "Fridays, 4:00 PM - 5:30 PM",
     max_participants |-> 12,
     participants |-> <<"charlotte@mergington.edu", "henry@mergington.edu">>]
>>

(***************************************************************************)
(* database.py: the tables.  A row is a record of its columns.  The        *)
(* default store is SQLite, where an INTEGER PRIMARY KEY is the rowid: a   *)
(* new row gets the largest id of the table plus one.                      *)
(***************************************************************************)
NoActivity ==
    [id |-> 0, name |-> "", description |-> "", schedule |-> "",
     max_participants |-> 0]

NoParticipant == [id |-> 0, activity_id |-> 0, email |-> ""]

MaxId(rows) == IF rows = {} THEN 0
               ELSE CHOOSE m \in {r.id : r \in rows} :
                        \A r \in rows : r.id <= m

NextRowId(rows) == MaxId(rows) + 1

Activity(acts, d) ==
    [id |-> NextRowId(acts), name |-> d.name, description |-> d.description,
     schedule |-> d.schedule, max_participants |-> d.max_participants]

Participant(parts, activity_id, email) ==
    [id |-> NextRowId(parts), activity_id |-> activity_id, email |-> email]

\* Mutant: the new row takes the place of the activity's rows instead of joining them.
InsertParticipantReplacing(parts, activity_id, email) ==
    {r \in parts : r.activity_id # activity_id}
        \cup {Participant(parts, activity_id, email)}

\* db.add(Participant(...)); db.commit()
InsertParticipant(parts, activity_id, email) ==
    parts \cup {Participant(parts, activity_id, email)}

\* Mutant: DELETE ... WHERE email = ?, the activity forgotten.
DeleteParticipantByEmail(parts, participant) ==
    {r \in parts : r.email # participant.email}

\* db.delete(participant); db.commit(): DELETE ... WHERE id = ?
DeleteParticipant(parts, participant) ==
    {r \in parts : r.id # participant.id}

\* db.query(Activity).filter(Activity.name == activity_name)
ActivitiesNamed(acts, activity_name) ==
    {a \in acts : a.name = activity_name}

\* db.query(Participant).filter(activity_id == ..., email == ...)
ParticipantsOf(parts, activity_id, email) ==
    {r \in parts : r.activity_id = activity_id /\ r.email = email}

\* db.query(Participant).filter(activity_id == ...).count()
CountParticipants(parts, activity_id) ==
    Cardinality({r \in parts : r.activity_id = activity_id})

\* The rows of a query in the order SQLite returns them: by rowid.
RECURSIVE ByRowId(_)
ByRowId(rows) ==
    IF rows = {} THEN <<>>
    ELSE LET first == CHOOSE r \in rows : \A q \in rows : r.id <= q.id
         IN  <<first>> \o ByRowId(rows \ {first})

(***************************************************************************)
(* database.py: seed_initial_data, one transaction.                        *)
(***************************************************************************)
RECURSIVE SeedParticipants(_, _, _, _)
SeedParticipants(parts, activity_id, emails, n) ==
    IF n = 0 THEN parts
    ELSE InsertParticipant(SeedParticipants(parts, activity_id, emails, n - 1),
                           activity_id, emails[n])

RECURSIVE SeedCatalog(_, _, _)
SeedCatalog(acts, parts, n) ==
    IF n = 0 THEN [activities |-> acts, participants |-> parts]
    ELSE LET before   == SeedCatalog(acts, parts, n - 1)
             d        == activities_data[n]
             activity == Activity(before.activities, d)
         IN  [activities   |-> before.activities \cup {activity},
              participants |-> SeedParticipants(before.participants, activity.id,
                                                d.participants, Len(d.participants))]

\* Mutant: the "data already exists" check dropped.
seed_without_check(acts, parts) ==
    LET seeded == SeedCatalog(acts, parts, Len(activities_data))
    IN  [activities |-> seeded.activities,
         participants |-> seeded.participants,
         printed |-> "Database seeded successfully!"]

seed_initial_data(acts, parts) ==
    IF Cardinality(acts) > 0
    THEN [activities |-> acts, participants |-> parts,
          printed |-> "Database already contains data. Skipping seed."]
    ELSE LET seeded == SeedCatalog(acts, parts, Len(activities_data))
         IN  [activities |-> seeded.activities,
              participants |-> seeded.participants,
              printed |-> "Database seeded successfully!"]

(***************************************************************************)
(* app.py: the handlers as functions of the store.                         *)
(***************************************************************************)
NoBody == [n \in {} |-> 0]

Reply(op, activity_name, email, status, detail) ==
    [op |-> op, name |-> activity_name, email |-> email, status |-> status,
     detail |-> detail, body |-> NoBody]

\* GET /activities: name -> to_dict(participant emails)
get_activities(acts, parts) ==
    [n \in {a.name : a \in acts} |->
        LET activity == CHOOSE a \in acts : a.name = n
            rows     == ByRowId({r \in parts : r.activity_id = activity.id})
        IN  [description      |-> activity.description,
             schedule         |-> activity.schedule,
             max_participants |-> activity.max_participants,
             participants     |-> [i \in DOMAIN rows |-> rows[i].email]]]

\* Mutant: the capacity check with > for >=.
signup_off_by_one(acts, parts, activity_name, email) ==
    LET found == ActivitiesNamed(acts, activity_name)
    IN  IF found = {}
        THEN [status |-> 404, detail |-> "Activity not found", participants |-> parts]
        ELSE LET activity == CHOOSE a \in found : TRUE
             IN  IF ParticipantsOf(parts, activity.id, email) # {}
                 THEN [status |-> 400, detail |-> "Student is already signed up",
                       participants |-> parts]
                 ELSE IF CountParticipants(parts, activity.id) > activity.max_participants
                 THEN [status |-> 400, detail |-> "Activity is full",
                       participants |-> parts]
                 ELSE [status |-> 200,
                       detail |-> "Signed up " \o email \o " for " \o activity_name,
                       participants |-> InsertParticipant(parts, activity.id, email)]

\* Mutant: the capacity check moved before the already-signed-up check.
signup_capacity_first(acts, parts, activity_name, email) ==
    LET found == ActivitiesNamed(acts, activity_name)
    IN  IF found = {}
        THEN [status |-> 404, detail |-> "Activity not found", participants |-> parts]
        ELSE LET activity == CHOOSE a \in found : TRUE
             IN  IF CountParticipants(parts, activity.id) >= activity.max_participants
                 THEN [status |-> 400, detail |-> "Activity is full",
                       participants |-> parts]
                 ELSE IF ParticipantsOf(parts, activity.id, email) # {}
                 THEN [status |-> 400, detail |-> "Student is already signed up",
                       participants |-> parts]
                 ELSE [status |-> 200,
                       detail |-> "Signed up " \o email \o " for " \o activity_name,
                       participants |-> InsertParticipant(parts, activity.id, email)]

\* Mutant: the row added and committed before the capacity check raises.
signup_add_before_full_check(acts, parts, activity_name, email) ==
    LET found == ActivitiesNamed(acts, activity_name)
    IN  IF found = {}
        THEN [status |-> 404, detail |-> "Activity not found", participants |-> parts]
        ELSE LET activity == CHOOSE a \in found : TRUE
             IN  IF ParticipantsOf(parts, activity.id, email) # {}
                 THEN [status |-> 400, detail |-> "Student is already signed up",
                       participants |-> parts]
                 ELSE IF CountParticipants(parts, activity.id) >= activity.max_participants
                 THEN [status |-> 400, detail |-> "Activity is full",
                       participants |-> InsertParticipant(parts, activity.id, email)]
                 ELSE [status |-> 200,
                       detail |-> "Signed up " \o email \o " for " \o activity_name,
                       participants |-> InsertParticipant(parts, activity.id, email)]

\* POST /activities/{activity_name}/signup: the reply and the table after it.
signup_for_activity(acts, parts, activity_name, email) ==
    LET found == ActivitiesNamed(acts, activity_name)
    IN  IF found = {}
        THEN [status |-> 404, detail |-> "Activity not found", participants |-> parts]
        ELSE LET activity == CHOOSE a \in found : TRUE
             IN  IF ParticipantsOf(parts, activity.id, email) # {}
                 THEN [status |-> 400, detail |-> "Student is already signed up",
                       participants |-> parts]
                 ELSE IF CountParticipants(parts, activity.id) >= activity.max_participants
                 THEN [status |-> 400, detail |-> "Activity is full",
                       participants |-> parts]
                 ELSE [status |-> 200,
                       detail |-> "Signed up " \o email \o " for " \o activity_name,
                       participants |-> InsertParticipant(parts, activity.id, email)]

\* Mutant: unregistering a student who is not signed up reported as done.
unregister_absent_ok(acts, parts, activity_name, email) ==
    LET found == ActivitiesNamed(acts, activity_name)
    IN  IF found = {}
        THEN {[status |-> 404, detail |-> "Activity not found", participants |-> parts]}
        ELSE LET activity == CHOOSE a \in found : TRUE
                 rows     == ParticipantsOf(parts, activity.id, email)
             IN  IF rows = {}
                 THEN {[status |-> 200,
                        detail |-> "Unregistered " \o email \o " from " \o activity_name,
                        participants |-> parts]}
                 ELSE {[status |-> 200,
                        detail |-> "Unregistered " \o email \o " from " \o activity_name,
                        participants |-> DeleteParticipant(parts, participant)] :
                       participant \in rows}

\* DELETE /activities/{activity_name}/unregister: the replies it can give.
\* .first() has no ORDER BY: any matching row may be the one it returns.
unregister_from_activity(acts, parts, activity_name, email) ==
    LET found == ActivitiesNamed(acts, activity_name)
    IN  IF found = {}
        THEN {[status |-> 404, detail |-> "Activity not found", participants |-> parts]}
        ELSE LET activity == CHOOSE a \in found : TRUE
                 rows     == ParticipantsOf(parts, activity.id, email)
             IN  IF rows = {}
                 THEN {[status |-> 400,
                        detail |-> "Student is not signed up for this activity",
                        participants |-> parts]}
                 ELSE {[status |-> 200,
                        detail |-> "Unregistered " \o email \o " from " \o activity_name,
                        participants |-> DeleteParticipant(parts, participant)] :
                       participant \in rows}

(***************************************************************************)
(* The requests the model sends.                                           *)
(***************************************************************************)
\* <<activity_name, email>> of the signup and unregister requests of Spec.
Requests ==
    {<<"Chess Club", "new@mergington.edu">>,
     <<"Math Club", "james@mergington.edu">>,
     <<"Math Club", "new@mergington.edu">>,
     <<"Knitting Club", "new@mergington.edu">>}

\* The same for the simultaneous requests of ConcSpec.
ConcRequests ==
    {<<"Math Club", "new@mergington.edu">>,
     <<"Math Club", "other@mergington.edu">>,
     <<"Knitting Club", "new@mergington.edu">>}

(***************************************************************************)
(* The store a previous run of the service left behind: nothing, or the    *)
(* seeded catalog after further students signed up for BusyActivity one    *)
(* after another until one place or no place was left.                     *)
(***************************************************************************)
BusyActivity == "Math Club"

Student(i) == "student" \o ToString(i) \o "@mergington.edu"

RECURSIVE EarlierSignups(_, _, _)
EarlierSignups(acts, parts, n) ==
    IF n = 0 THEN parts
    ELSE signup_for_activity(acts, EarlierSignups(acts, parts, n - 1),
                             BusyActivity, Student(n)).participants

SeededStore == seed_initial_data({}, {})

FreePlaces ==
    LET d == CHOOSE d \in Range(activities_data) : d.name = BusyActivity
    IN  d.max_participants - Len(d.participants)

EarlierStores ==
    {[activities |-> {}, participants |-> {}]} \cup
    {[activities   |-> SeededStore.activities,
      participants |-> EarlierSignups(SeededStore.activities,
                                      SeededStore.participants, n)] :
     n \in {FreePlaces - 1, FreePlaces}}

IdleProc ==
    [pc |-> "idle", op |-> "", name |-> "", email |-> "",
     activity |-> NoActivity, participant |-> NoParticipant]

Init ==
    /\ \E store \in EarlierStores :
          /\ activities = store.activities
          /\ participants = store.participants
    /\ started = FALSE
    /\ procs = [p \in Procs |-> IdleProc]
    /\ response = Reply("none", "", "", 0, "")

(***************************************************************************)
(* app.py: startup_event.  init_db creates missing tables and leaves rows  *)
(* alone; seed_initial_data follows.  The process starts, or starts again, *)
(* with no request in flight.                                              *)
(***************************************************************************)
Startup ==
    /\ \A p \in Procs : procs[p].pc = "idle"
    /\ LET seeded == seed_initial_data(activities, participants)
       IN  /\ activities' = seeded.activities
           /\ participants' = seeded.participants
           /\ response' = Reply("startup", "", "", 0, seeded.printed)
    /\ started' = TRUE
    /\ UNCHANGED procs

(***************************************************************************)
(* Spec: each handler from request to reply in one step.                   *)
(***************************************************************************)
GetActivities ==
    /\ started
    /\ response' = [Reply("list", "", "", 200, "") EXCEPT
                       !.body = get_activities(activities, participants)]
    /\ UNCHANGED <<activities, participants, started, procs>>

Signup(activity_name, email) ==
    /\ started
    /\ LET out == signup_for_activity(activities, participants, activity_name, email)
       IN  /\ out.status = 200 => NextRowId(participants) <= MaxRowId
           /\ participants' = out.participants
           /\ response' = Reply("signup", activity_name, email, out.status, out.detail)
    /\ UNCHANGED <<activities, started, procs>>

Unregister(activity_name, email) ==
    /\ started
    /\ \E out \in unregister_from_activity(activities, participants,
                                           activity_name, email) :
          /\ participants' = out.participants
          /\ response' = Reply("unregister", activity_name, email,
                               out.status, out.detail)
    /\ UNCHANGED <<activities, started, procs>>

Next ==
    \/ Startup
    \/ GetActivities
    \/ \E r \in Requests : Signup(r[1], r[2])
    \/ \E r \in Requests : Unregister(r[1], r[2])

Spec == Init /\ [][Next]_vars

(***************************************************************************)
(* ConcSpec: NumProcs requests at once.  Each request has its own session; *)
(* a handler's queries are separate statements, each reading what is       *)
(* committed when it runs, and nothing is written before the handler's one *)
(* commit.  The service has started on a store that earlier signups left   *)
(* with one place or no place in BusyActivity.  Only the two handlers that *)
(* write take part; startup runs before any request is served.             *)
(***************************************************************************)
ConcInit ==
    /\ \E store \in EarlierStores :
          /\ store.activities # {}
          /\ activities = store.activities
          /\ participants = store.participants
    /\ started = TRUE
    /\ procs = [p \in Procs |-> IdleProc]
    /\ response = Reply("startup", "", "", 0,
                        "Database already contains data. Skipping seed.")

Finish(p, status, detail) ==
    /\ response' = Reply(procs[p].op, procs[p].name, procs[p].email, status, detail)
    /\ procs' = [procs EXCEPT ![p] = IdleProc]

\* app.py 59-61 and 98-100: the handler's first query.
LookupActivity(p, op, activity_name, email) ==
    /\ started
    /\ procs[p].pc = "idle"
    /\ LET found == ActivitiesNamed(activities, activity_name)
       IN  \/ /\ found = {}
              /\ response' = Reply(op, activity_name, email, 404, "Activity not found")
              /\ UNCHANGED procs
           \/ /\ found # {}
              /\ procs' = [procs EXCEPT ![p] =
                              [pc |-> IF op = "signup" THEN "check_existing"
                                                       ELSE "find_participant",
                               op |-> op, name |-> activity_name, email |-> email,
                               activity |-> CHOOSE a \in found : TRUE,
                               participant |-> NoParticipant]]
              /\ UNCHANGED response
    /\ UNCHANGED <<activities, participants, started>>

\* app.py 64-73
SignupCheckExisting(p) ==
    /\ procs[p].pc = "check_existing"
    /\ \/ /\ ParticipantsOf(participants, procs[p].activity.id, procs[p].email) # {}
          /\ Finish(p, 400, "Student is already signed up")
       \/ /\ ParticipantsOf(participants, procs[p].activity.id, procs[p].email) = {}
          /\ procs' = [procs EXCEPT ![p].pc = "check_count"]
          /\ UNCHANGED response
    /\ UNCHANGED <<activities, participants, started>>

\* app.py 76-84
SignupCheckCount(p) ==
    /\ procs[p].pc = "check_count"
    /\ \/ /\ CountParticipants(participants, procs[p].activity.id)
                 >= procs[p].activity.max_participants
          /\ Finish(p, 400, "Activity is full")
       \/ /\ CountParticipants(participants, procs[p].activity.id)
                 < procs[p].activity.max_participants
          /\ procs' = [procs EXCEPT ![p].pc = "insert"]
          /\ UNCHANGED response
    /\ UNCHANGED <<activities, participants, started>>

\* Mutant: the commit step counts again and gives up when the place is gone.
SignupCommitRechecking(p) ==
    /\ procs[p].pc = "insert"
    /\ NextRowId(participants) <= MaxRowId
    /\ IF CountParticipants(participants, procs[p].activity.id)
              >= procs[p].activity.max_participants
       THEN /\ UNCHANGED participants
            /\ Finish(p, 400, "Activity is full")
       ELSE /\ participants' = InsertParticipant(participants, procs[p].activity.id,
                                                 procs[p].email)
            /\ Finish(p, 200, "Signed up " \o procs[p].email \o " for " \o procs[p].name)
    /\ UNCHANGED <<activities, started>>

\* app.py 87-91
SignupCommit(p) ==
    /\ procs[p].pc = "insert"
    /\ NextRowId(participants) <= MaxRowId
    /\ participants' = InsertParticipant(participants, procs[p].activity.id,
                                         procs[p].email)
    /\ Finish(p, 200, "Signed up " \o procs[p].email \o " for " \o procs[p].name)
    /\ UNCHANGED <<activities, started>>

\* app.py 103-112
UnregisterFind(p) ==
    /\ procs[p].pc = "find_participant"
    /\ \/ /\ ParticipantsOf(participants, procs[p].activity.id, procs[p].email) = {}
          /\ Finish(p, 400, "Student is not signed up for this activity")
       \/ /\ \E participant \in ParticipantsOf(participants, procs[p].activity.id,
                                               procs[p].email) :
                procs' = [procs EXCEPT ![p].pc = "delete",
                                       ![p].participant = participant]
          /\ UNCHANGED response
    /\ UNCHANGED <<activities, participants, started>>

\* app.py 114-117
UnregisterCommit(p) ==
    /\ procs[p].pc = "delete"
    /\ participants' = DeleteParticipant(participants, procs[p].participant)
    /\ Finish(p, 200, "Unregistered " \o procs[p].email \o " from " \o procs[p].name)
    /\ UNCHANGED <<activities, started>>

ConcNext ==
    \/ \E p \in Procs, op \in {"signup", "unregister"}, r \in ConcRequests :
          LookupActivity(p, op, r[1], r[2])
    \/ \E p \in Procs : SignupCheckExisting(p)
    \/ \E p \in Procs : SignupCheckCount(p)
    \/ \E p \in Procs : SignupCommit(p)
    \/ \E p \in Procs : UnregisterFind(p)
    \/ \E p \in Procs : UnregisterCommit(p)

ConcSpec == ConcInit /\ [][ConcNext]_vars

(* Properties.                                                             *)
(***************************************************************************)
RowsOfActivity(parts, activity_id) == {r \in parts : r.activity_id = activity_id}

EmailsOfActivity(parts, activity_id) ==
    {r.email : r \in RowsOfActivity(parts, activity_id)}

Listing == get_activities(activities, participants)

AllIdle == \A p \in Procs : procs[p].pc = "idle"

\* C1: with the handlers run one after another, no activity ever has more
\* participant rows than its max_participants.
C1_CapacityRespected ==
    \A a \in activities :
        Cardinality(RowsOfActivity(participants, a.id)) <= a.max_participants

\* A signup was turned away from an activity that holds exactly
\* max_participants rows.
C1_FullActivityReached ==
    /\ response.op = "signup"
    /\ response.detail = "Activity is full"
    /\ \E a \in activities :
          /\ a.name = response.name
          /\ Cardinality(RowsOfActivity(participants, a.id)) = a.max_participants

\* C2: in every state, requests in progress or not, an (activity, email)
\* pair has at most one participant row.
C2_AtMostOneRowPerPair ==
    \A r, q \in participants :
        (r.activity_id = q.activity_id /\ r.email = q.email) => r = q

\* C3: signup reports the first failing check in the order activity
\* exists, student not yet signed up, activity not full, and succeeds
\* exactly when none fails.
C3_SignupChecksInOrder ==
    [][response'.op = "signup" =>
         LET found == {a \in activities : a.name = response'.name}
         IN  IF found = {}
             THEN response'.status = 404 /\ response'.detail = "Activity not found"
             ELSE LET a == CHOOSE a \in found : TRUE
                      rows == RowsOfActivity(participants, a.id)
                  IN  IF \E r \in rows : r.email = response'.email
                      THEN /\ response'.status = 400
                           /\ response'.detail = "Student is already signed up"
                      ELSE IF Cardinality(rows) >= a.max_participants
                      THEN /\ response'.status = 400
                           /\ response'.detail = "Activity is full"
                      ELSE response'.status = 200]_vars

\* A student who is signed up for a full activity asked again and was told
\* "already signed up".
C3_AlreadySignedUpWhileFull ==
    /\ response.op = "signup"
    /\ response.detail = "Student is already signed up"
    /\ \E a \in activities :
          /\ a.name = response.name
          /\ Cardinality(RowsOfActivity(participants, a.id)) >= a.max_participants

\* C4: a signup that has passed the capacity check inserts its row when it
\* commits whatever has been committed since, and a row leaves the table
\* only by the commit of an unregister request: nothing takes an extra row
\* back.
C4_BothInsertNothingCompensates ==
    [][/\ \A p \in Procs :
             (procs[p].pc = "insert" /\ procs'[p].pc = "idle") =>
                 \E r \in participants' \ participants :
                     /\ r.activity_id = procs[p].activity.id
                     /\ r.email = procs[p].email
                     /\ participants' = participants \cup {r}
       /\ (participants \ participants' # {}) =>
              \E p \in Procs : procs[p].pc = "delete" /\ procs'[p].pc = "idle"
      ]_vars

\* Two signups with different emails took the last place: the activity
\* holds more rows than max_participants, no pair twice, and no request is
\* in progress.
C4_OverCapacityAtRest ==
    /\ AllIdle
    /\ \E a \in activities :
          /\ Cardinality(RowsOfActivity(participants, a.id)) > a.max_participants
          /\ \A r, q \in RowsOfActivity(participants, a.id) :
                r.email = q.email => r = q

\* C5: a successful signup(A, e) adds one row, for (A, e), and nothing
\* else: A lists one participant more, e among them, every other activity
\* lists what it listed, and no activity record changes.
C5_SignupAddsExactlyOneRow ==
    [][(response'.op = "signup" /\ response'.status = 200) =>
         /\ activities' = activities
         /\ \E a \in activities :
               /\ a.name = response'.name
               /\ \E r \in participants' \ participants :
                     /\ r.activity_id = a.id
                     /\ r.email = response'.email
                     /\ participants' = participants \cup {r}
               /\ Cardinality(RowsOfActivity(participants', a.id))
                      = Cardinality(RowsOfActivity(participants, a.id)) + 1
         /\ LET after == get_activities(activities', participants')
            IN  /\ DOMAIN after = DOMAIN Listing
                /\ response'.email \in Range(after[response'.name].participants)
                /\ Len(after[response'.name].participants)
                       = Len(Listing[response'.name].participants) + 1
                /\ \A n \in DOMAIN after :
                       n # response'.name => after[n] = Listing[n]
                /\ \A n \in DOMAIN after :
                       [after[n] EXCEPT !.participants = <<>>]
                           = [Listing[n] EXCEPT !.participants = <<>>]]_vars

\* new@mergington.edu signed up for Chess Club, which now lists three.
C5_ChessClubGrew ==
    /\ response.op = "signup"
    /\ response.status = 200
    /\ response.name = "Chess Club"
    /\ Len(Listing["Chess Club"].participants) = 3

\* C6: unregister answers 404 for an unknown activity, 400 "not signed up"
\* for a known activity without a row for the email, 200 otherwise; and an
\* unregister that follows an unregister for the same pair fails, with
\* "not signed up" when the activity exists.
C6_UnregisterErrors ==
    [][response'.op = "unregister" =>
         LET found == {a \in activities : a.name = response'.name}
             again == /\ response.op = "unregister"
                      /\ response.name = response'.name
                      /\ response.email = response'.email
         IN  IF found = {}
             THEN response'.status = 404 /\ response'.detail = "Activity not found"
             ELSE LET a == CHOOSE a \in found : TRUE
                  IN  /\ IF response'.email \in EmailsOfActivity(participants, a.id)
                         THEN response'.status = 200
                         ELSE /\ response'.status = 400
                              /\ response'.detail =
                                     "Student is not signed up for this activity"
                      /\ again =>
                             /\ response'.status = 400
                             /\ response'.detail =
                                    "Student is not signed up for this activity"]_vars

\* james@mergington.edu, seeded into Math Club and since unregistered, was
\* refused a further unregister.
C6_SecondUnregisterRefused ==
    /\ response.op = "unregister"
    /\ response.status = 400
    /\ response.name = "Math Club"
    /\ response.email = "james@mergington.edu"

\* C7: right after a successful signup(A, e), unregister(A, e) succeeds and
\* leaves every activity with the participant emails it had before the
\* signup.
C7_SignupThenUnregister ==
    [][(response'.op = "signup" /\ response'.status = 200) =>
         \A out \in unregister_from_activity(activities', participants',
                                             response'.name, response'.email) :
             /\ out.status = 200
             /\ \A a \in activities :
                    EmailsOfActivity(out.participants, a.id)
                        = EmailsOfActivity(participants, a.id)]_vars

\* new@mergington.edu, who can be in Math Club only by a signup, was
\* unregistered from it while still in Chess Club.
C7_RoundTripDone ==
    /\ response.op = "unregister"
    /\ response.status = 200
    /\ response.name = "Math Club"
    /\ response.email = "new@mergington.edu"
    /\ "new@mergington.edu" \in Range(Listing["Chess Club"].participants)

\* C8: startup on a store without activities inserts the 9 activities with
\* 2 participant rows each (Chess Club: michael and daniel, capacity 12);
\* startup on a store with an activity changes neither table.
C8_SeedOnlyWhenEmpty ==
    [][response'.op = "startup" =>
         IF activities = {}
         THEN LET after == get_activities(activities', participants')
              IN  /\ Cardinality(activities') = 9
                  /\ Cardinality(DOMAIN after) = 9
                  /\ Cardinality(participants') = Cardinality(participants) + 18
                  /\ \A a \in activities' :
                         Cardinality(RowsOfActivity(participants', a.id)) = 2
                  /\ after["Chess Club"].participants =
                         <<"michael@mergington.edu", "daniel@mergington.edu">>
                  /\ after["Chess Club"].max_participants = 12
         ELSE /\ activities' = activities
              /\ participants' = participants]_vars

\* A later startup found the catalog, and a row that a signup added, and
\* skipped the seed.
C8_RestartAfterSignup ==
    /\ response.op = "startup"
    /\ response.detail = "Database already contains data. Skipping seed."
    /\ Cardinality(activities) = 9
    /\ \E r \in participants : r.email = "new@mergington.edu"

\* C9: a signup or unregister that answers 404 or 400 changes neither
\* table, so the listing is the same before and after it.
C9_ErrorsChangeNothing ==
    [][response'.status \in {400, 404} =>
         /\ activities' = activities
         /\ participants' = participants
         /\ get_activities(activities', participants') = Listing]_vars

\* An unregister named an activity that does not exist.
C9_UnregisterUnknownActivity ==
    /\ response.op = "unregister"
    /\ response.status = 404

\* C10: once an unregister(A, e) has answered 200, and until another
\* request completes, the table holds no row for (A, e): the listing of A
\* lacks e and a signup(A, e) would not be refused as already signed up.
C10_UnregisteredMeansAbsent ==
    (response.op = "unregister" /\ response.status = 200) =>
        /\ \A a \in activities :
               a.name = response.name =>
                   ParticipantsOf(participants, a.id, response.email) = {}
        /\ response.email \notin Range(Listing[response.name].participants)
        /\ signup_for_activity(activities, participants, response.name,
                               response.email).detail
               # "Student is already signed up"

=============================================================================
